---- MODULE Spec2Model ----
(***************************************************************************)
(* Model of b_process_bucket_contents.py: the pipeline that main() runs    *)
(* over one decoded ListObjectVersions response.                           *)
(*                                                                         *)
(*   process_deletes -> process_versions -> combine_deleted_and_versions   *)
(*                   -> get_file_stats -> print_file_stats                 *)
(*                                                                         *)
(* Representation.                                                         *)
(*   - An object key is a sequence of one-character strings, so that       *)
(*     is_folder can look at its last character.                           *)
(*   - A Python dict of rows is [order, row]: order is the insertion order *)
(*     of the keys (the order .items() walks), row maps a key to its row.  *)
(*   - A row is a function from field names to values; a field a row does  *)
(*     not have is absent from its DOMAIN (row.get(f) is then None).       *)
(*   - A Python float that results from int / int is the reduced fraction  *)
(*     <<numerator, denominator>>; the int 0 that get_file_stats stores in *)
(*     average_size is the fraction <<0, 1>> (0 == 0.0 in Python).         *)
(*   - A raised exception is recorded in err and stops the run.            *)
(***************************************************************************)
EXTENDS Integers, Sequences, FiniteSets, TLC

(***************************************************************************)
(* The checked listings: at most MaxVersions version records, MaxDeletes   *)
(* delete markers and MaxRecords records in all, in every order.  The keys *)
(* are a file, a file whose "/" is not last, and a folder.  Timestamps are *)
(* only compared and sizes only added up, so two values of each are used.  *)
(***************************************************************************)
MaxVersions == 2
MaxDeletes == 2
MaxRecords == 3

ObjectKeys == {<<"a">>, <<"/", "b">>, <<"d", "/">>}
Times == {1, 2}
Sizes == {0, 1}

VersionRecords == [Key : ObjectKeys, LastModified : Times, Size : Sizes, IsLatest : BOOLEAN]
DeleteRecords == [Key : ObjectKeys, LastModified : Times]

SeqsUpTo(S, n) == UNION {[1..m -> S] : m \in 0..n}

Min(a, b) == IF a < b THEN a ELSE b

VARIABLES json_versions, json_deletes, delete_markers, versions, data, stats, err, pc

vars == <<json_versions, json_deletes, delete_markers, versions, data, stats, err, pc>>

(***************************************************************************)
(* Python dicts.                                                           *)
(***************************************************************************)
EmptyDict == [order |-> <<>>, row |-> <<>>]

DictKeys(d) == {d.order[i] : i \in 1..Len(d.order)}

HasKey(d, key) == key \in DictKeys(d)

DictSet(d, key, r) ==
  [order |-> IF HasKey(d, key) THEN d.order ELSE Append(d.order, key),
   row |-> [k \in DictKeys(d) \cup {key} |-> IF k = key THEN r ELSE d.row[k]]]

Put(r, field, value) ==
  [f \in DOMAIN r \cup {field} |-> IF f = field THEN value ELSE r[f]]

(***************************************************************************)
(* int / int.  DivByZero stands for a raised ZeroDivisionError.            *)
(***************************************************************************)
RECURSIVE GCD(_, _)
GCD(a, b) == IF b = 0 THEN a ELSE GCD(b, a % b)

DivByZero == <<0, 0>>

TrueDiv(a, b) ==
  IF b = 0 THEN DivByZero
  ELSE LET g == GCD(a, b) IN <<a \div g, b \div g>>

IntZero == <<0, 1>>

(***************************************************************************)
(* is_folder                                                               *)
(***************************************************************************)
is_folder(filename) ==
  LET index == Len(filename) IN filename[index] = "/"

(***************************************************************************)
(* process_deletes                                                         *)
(***************************************************************************)
deletes_row(retval, record) ==
  LET key == record.Key
      date == record.LastModified
  IN IF ~HasKey(retval, key)
     THEN DictSet(retval, key, [latest_modified |-> date])
     ELSE IF date > retval.row[key].latest_modified
          THEN DictSet(retval, key, Put(retval.row[key], "lastest_modified", date))
          ELSE retval

RECURSIVE deletes_loop(_, _)
deletes_loop(retval, records) ==
  IF records = <<>> THEN retval
  ELSE deletes_loop(deletes_row(retval, Head(records)), Tail(records))

process_deletes(records) == deletes_loop(EmptyDict, records)

(***************************************************************************)
(* process_versions                                                        *)
(***************************************************************************)
versions_merge_no_size(old, date, size) ==
  LET counted == Put(old, "num_versions", old.num_versions + 1)
  IN IF date > old.latest_modified
     THEN Put(counted, "lastest_modified", date)
     ELSE counted

versions_merge(old, date, size) ==
  LET summed == Put(old, "total_size", old.total_size + size)
      counted == Put(summed, "num_versions", old.num_versions + 1)
  IN IF date > old.latest_modified
     THEN Put(counted, "lastest_modified", date)
     ELSE counted

versions_row(retval, record) ==
  LET key == record.Key
      date == record.LastModified
      size == record.Size
      merged == IF ~HasKey(retval, key)
                THEN DictSet(retval, key,
                       [latest_modified |-> date, total_size |-> size, num_versions |-> 1])
                ELSE DictSet(retval, key, versions_merge(retval.row[key], date, size))
  IN IF record.IsLatest /\ ~is_folder(key)
     THEN DictSet(merged, key, Put(merged.row[key], "latest_size", size))
     ELSE merged

RECURSIVE versions_loop(_, _)
versions_loop(retval, records) ==
  IF records = <<>> THEN retval
  ELSE versions_loop(versions_row(retval, Head(records)), Tail(records))

versions_average(retval) ==
  [order |-> retval.order,
   row |-> [key \in DictKeys(retval) |->
              Put(retval.row[key], "average_size",
                  TrueDiv(retval.row[key].total_size, retval.row[key].num_versions))]]

process_versions(records) == versions_average(versions_loop(EmptyDict, records))

(***************************************************************************)
(* combine_deleted_and_versions.  retval is the delete_markers dict itself *)
(* and retval[key] = row stores the row object of versions, so the rows of *)
(* versions receive the same writes; CombineDeletedAndVersions below       *)
(* records both aliases.                                                   *)
(***************************************************************************)
merge_row(retval, vs, key) ==
  LET row == vs.row[key]
      merged == IF ~HasKey(retval, key)
                THEN Put(row, "status", "present")
                ELSE LET date_deleted == retval.row[key].latest_modified
                         date_version == row.latest_modified
                     IN IF date_deleted > date_version
                        THEN Put(Put(row, "status", "deleted"), "last_modified", date_deleted)
                        ELSE Put(row, "status", "present")
  IN DictSet(retval, key, Put(merged, "is_folder", is_folder(key)))

RECURSIVE merge_loop(_, _, _)
merge_loop(retval, vs, keys) ==
  IF keys = <<>> THEN retval
  ELSE merge_loop(merge_row(retval, vs, Head(keys)), vs, Tail(keys))

only_deleted_one_version(row, key) ==
  Put(Put(Put(Put(row, "status", "deleted"), "is_folder", is_folder(key)),
          "total_size", 0), "num_versions", 1)

only_deleted(row, key) ==
  Put(Put(Put(Put(row, "status", "deleted"), "is_folder", is_folder(key)),
          "total_size", 0), "num_versions", 0)

combine_from_empty(dm, vs) ==
  LET merged == merge_loop(EmptyDict, vs, vs.order)
  IN [order |-> merged.order,
      row |-> [key \in DictKeys(merged) |->
                 IF ~HasKey(vs, key) THEN only_deleted(merged.row[key], key)
                 ELSE merged.row[key]]]

combine_deleted_and_versions(dm, vs) ==
  LET merged == merge_loop(dm, vs, vs.order)
  IN [order |-> merged.order,
      row |-> [key \in DictKeys(merged) |->
                 IF ~HasKey(vs, key) THEN only_deleted(merged.row[key], key)
                 ELSE merged.row[key]]]

(***************************************************************************)
(* get_file_stats.  The result is [err, stats]: err names the exception    *)
(* that left the function, and stats is meaningful only when err = "none". *)
(***************************************************************************)
NoneValue == -1

row_get_default_zero(row, field) == IF field \in DOMAIN row THEN row[field] ELSE 0

row_get(row, field) == IF field \in DOMAIN row THEN row[field] ELSE NoneValue

NewStats ==
  [present |-> [num_files |-> 0, num_versions |-> 0, total_size |-> 0,
                average_size |-> IntZero, latest_size |-> 0],
   deleted |-> [num_files |-> 0, num_versions |-> 0, total_size |-> 0,
                average_size |-> IntZero]]

present_add(bucket, row) ==
  [bucket EXCEPT !.num_files = @ + 1,
                 !.num_versions = @ + row.num_versions,
                 !.total_size = @ + row.total_size,
                 !.latest_size = @ + row_get(row, "latest_size")]

deleted_add_no_size(bucket, row) ==
  [bucket EXCEPT !.num_files = @ + 1,
                 !.num_versions = @ + row.num_versions]

deleted_add(bucket, row) ==
  [bucket EXCEPT !.num_files = @ + 1,
                 !.num_versions = @ + row.num_versions,
                 !.total_size = @ + row.total_size]

stats_row_no_folder_skip(acc, row) ==
  IF row.status = "present"
  THEN IF row_get(row, "latest_size") = NoneValue
       THEN [acc EXCEPT !.err = "TypeError"]
       ELSE [acc EXCEPT !.stats.present = present_add(@, row)]
  ELSE IF row.status = "deleted"
       THEN [acc EXCEPT !.stats.deleted = deleted_add(@, row)]
       ELSE [acc EXCEPT !.err = "Exception"]

stats_row(acc, row) ==
  IF row.is_folder THEN acc
  ELSE IF row.status = "present"
       THEN IF row_get(row, "latest_size") = NoneValue
            THEN [acc EXCEPT !.err = "TypeError"]
            ELSE [acc EXCEPT !.stats.present = present_add(@, row)]
       ELSE IF row.status = "deleted"
            THEN [acc EXCEPT !.stats.deleted = deleted_add(@, row)]
            ELSE [acc EXCEPT !.err = "Exception"]

RECURSIVE stats_loop(_, _, _)
stats_loop(acc, d, keys) ==
  IF keys = <<>> \/ acc.err # "none" THEN acc
  ELSE stats_loop(stats_row(acc, d.row[Head(keys)]), d, Tail(keys))

bucket_average_unguarded(bucket) ==
  TrueDiv(bucket.total_size, bucket.num_versions)

bucket_average(bucket) ==
  IF bucket.num_versions # 0
  THEN TrueDiv(bucket.total_size, bucket.num_versions)
  ELSE IntZero

get_file_stats(d) ==
  LET summed == stats_loop([err |-> "none", stats |-> NewStats], d, d.order)
      present_average == bucket_average(summed.stats.present)
      deleted_average == bucket_average(summed.stats.deleted)
  IN IF summed.err # "none" THEN summed
     ELSE IF present_average = DivByZero \/ deleted_average = DivByZero
          THEN [summed EXCEPT !.err = "ZeroDivisionError"]
          ELSE [summed EXCEPT !.stats.present.average_size = present_average,
                              !.stats.deleted.average_size = deleted_average]

(***************************************************************************)
(* print_file_stats, up to the value it stores in pct_used_by_latest.      *)
(* str(round(x, 2)) is <<"round2", h>> with h the value in hundredths; the *)
(* literal "0" is <<"0", 0>>.  The *_human copies made with the humanize   *)
(* package and the printing are left out.                                  *)
(***************************************************************************)
round_half_even(n, d) ==
  LET q == n \div d
      r == n % d
  IN IF 2 * r < d THEN q
     ELSE IF 2 * r > d THEN q + 1
          ELSE IF q % 2 = 0 THEN q ELSE q + 1

pct_used_by_latest(present) ==
  IF present.total_size # 0
  THEN <<"round2", round_half_even(present.latest_size * 10000, present.total_size)>>
  ELSE <<"0", 0>>

print_file_stats(st) ==
  [st EXCEPT !.present = Put(st.present, "pct_used_by_latest", pct_used_by_latest(st.present))]

(***************************************************************************)
(* main: one action per call, in the order main makes them.                *)
(***************************************************************************)
NoStats == [returned |-> FALSE]

Init ==
  /\ json_versions \in SeqsUpTo(VersionRecords, MaxVersions)
  /\ json_deletes \in SeqsUpTo(DeleteRecords, Min(MaxDeletes, MaxRecords - Len(json_versions)))
  /\ delete_markers = EmptyDict
  /\ versions = EmptyDict
  /\ data = EmptyDict
  /\ stats = NoStats
  /\ err = "none"
  /\ pc = "process_deletes"

ProcessDeletes ==
  /\ pc = "process_deletes"
  /\ delete_markers' = process_deletes(json_deletes)
  /\ pc' = "process_versions"
  /\ UNCHANGED <<json_versions, json_deletes, versions, data, stats, err>>

ProcessVersions ==
  /\ pc = "process_versions"
  /\ LET retval == process_versions(json_versions)
     IN IF \E key \in DictKeys(retval) : retval.row[key].average_size = DivByZero
        THEN /\ err' = "ZeroDivisionError"
             /\ pc' = "aborted"
             /\ UNCHANGED versions
        ELSE /\ versions' = retval
             /\ pc' = "combine_deleted_and_versions"
             /\ UNCHANGED err
  /\ UNCHANGED <<json_versions, json_deletes, delete_markers, data, stats>>

CombineDeletedAndVersions ==
  /\ pc = "combine_deleted_and_versions"
  /\ LET retval == combine_deleted_and_versions(delete_markers, versions)
     IN /\ data' = retval
        /\ delete_markers' = retval
        /\ versions' = [order |-> versions.order,
                        row |-> [key \in DictKeys(versions) |-> retval.row[key]]]
  /\ pc' = "get_file_stats"
  /\ UNCHANGED <<json_versions, json_deletes, stats, err>>

GetFileStats ==
  /\ pc = "get_file_stats"
  /\ LET retval == get_file_stats(data)
     IN IF retval.err # "none"
        THEN /\ err' = retval.err
             /\ pc' = "aborted"
             /\ UNCHANGED stats
        ELSE /\ stats' = retval.stats
             /\ pc' = "print_file_stats"
             /\ UNCHANGED err
  /\ UNCHANGED <<json_versions, json_deletes, delete_markers, versions, data>>

PrintFileStats ==
  /\ pc = "print_file_stats"
  /\ stats' = print_file_stats(stats)
  /\ pc' = "done"
  /\ UNCHANGED <<json_versions, json_deletes, delete_markers, versions, data, err>>

(***************************************************************************)
(* get_file_stats and print_file_stats called on an arbitrary map of rows: *)
(* up to MaxEntries distinct keys in any order, each row with any status   *)
(* (also one outside {present, deleted}) and with or without latest_size.  *)
(***************************************************************************)
MaxEntries == 2

Statuses == {"present", "deleted", "unknown"}

StatsShapes ==
  LET base == [status : Statuses, total_size : Sizes, num_versions : 0..1]
  IN base \cup {Put(r, "latest_size", size) : r \in base, size \in Sizes}

KeyOrders == {order \in SeqsUpTo(ObjectKeys, MaxEntries) :
                \A i, j \in 1..Len(order) : i # j => order[i] # order[j]}

IndexOf(order, key) == CHOOSE i \in 1..Len(order) : order[i] = key

StatsDict(order, shapes) ==
  [order |-> order,
   row |-> [key \in {order[i] : i \in 1..Len(order)} |->
              Put(shapes[IndexOf(order, key)], "is_folder", is_folder(key))]]

InitStats ==
  /\ json_versions = <<>>
  /\ json_deletes = <<>>
  /\ \E order \in KeyOrders :
       \E shapes \in [1..Len(order) -> StatsShapes] :
         /\ data = StatsDict(order, shapes)
         /\ delete_markers = StatsDict(order, shapes)
  /\ versions = EmptyDict
  /\ stats = NoStats
  /\ err = "none"
  /\ pc = "get_file_stats"

NextStats ==
  \/ GetFileStats
  \/ PrintFileStats

SpecStats == InitStats /\ [][NextStats]_vars

Next ==
  \/ ProcessDeletes
  \/ ProcessVersions
  \/ CombineDeletedAndVersions
  \/ GetFileStats
  \/ PrintFileStats

Spec == Init /\ [][Next]_vars

(***************************************************************************)
(* What the input says, read off the records without the pipeline.         *)
(***************************************************************************)
FolderKey(key) == key[Len(key)] = "/"

VersionIdx(key) == {i \in 1..Len(json_versions) : json_versions[i].Key = key}

DeleteIdx(key) == {i \in 1..Len(json_deletes) : json_deletes[i].Key = key}

VersionKeys == {json_versions[i].Key : i \in 1..Len(json_versions)}

DeleteKeys == {json_deletes[i].Key : i \in 1..Len(json_deletes)}

MaxOf(S) == CHOOSE m \in S : \A x \in S : x <= m

MaxVersionTime(key) == MaxOf({json_versions[i].LastModified : i \in VersionIdx(key)})

MaxDeleteTime(key) == MaxOf({json_deletes[i].LastModified : i \in DeleteIdx(key)})

RECURSIVE SumSizes(_)
SumSizes(I) ==
  IF I = {} THEN 0
  ELSE LET i == CHOOSE x \in I : TRUE IN json_versions[i].Size + SumSizes(I \ {i})

VersionIdxOf(keys) == {i \in 1..Len(json_versions) : json_versions[i].Key \in keys}

Combined == pc \in {"get_file_stats", "print_file_stats", "done", "aborted"}

Returned == pc \in {"print_file_stats", "done"}

(***************************************************************************)
(* C1.  A key with at least one version record is reconciled to deleted    *)
(* exactly when it has a delete marker and the maximum timestamp of its    *)
(* delete markers is strictly greater than the maximum timestamp of its    *)
(* versions, and to present otherwise.  The code compares the timestamps   *)
(* of the first record of each kind, so this fails.                        *)
(***************************************************************************)
C1_StatusFollowsLatestTimestamps ==
  Combined =>
    \A key \in VersionKeys :
      LET newer == DeleteIdx(key) # {} /\ MaxDeleteTime(key) > MaxVersionTime(key)
      IN data.row[key].status = IF newer THEN "deleted" ELSE "present"

(***************************************************************************)
(* C2.  When get_file_stats returns, each bucket counts the non-folder     *)
(* keys reconciled to its status, the version records of those keys and    *)
(* the sum of the sizes of those records.                                  *)
(***************************************************************************)
KeysWithStatus(status) ==
  {key \in DictKeys(data) : ~FolderKey(key) /\ data.row[key].status = status}

C3_KeysAreTheUnion ==
  Combined =>
    /\ DictKeys(data) = VersionKeys \cup DeleteKeys
    /\ Len(data.order) = Cardinality(VersionKeys \cup DeleteKeys)
    /\ \A key \in DictKeys(data) :
         /\ {"status", "is_folder"} \subseteq DOMAIN data.row[key]
         /\ data.row[key].status \in {"present", "deleted"}
         /\ data.row[key].is_folder \in BOOLEAN

C3_Witness ==
  /\ Combined
  /\ VersionKeys \ DeleteKeys # {}
  /\ DeleteKeys \ VersionKeys # {}
  /\ Len(json_versions) + Len(json_deletes) > Cardinality(DictKeys(data))

(***************************************************************************)
(* C4.  A key with delete markers and no version is reconciled to deleted  *)
(* with num_versions = 0 and total_size = 0; if it is not a folder it adds *)
(* 1 to the deleted bucket's num_files and nothing else to either bucket.  *)
(***************************************************************************)
DictRemove(d, key) ==
  [order |-> SelectSeq(d.order, LAMBDA k : k # key),
   row |-> [k \in DictKeys(d) \ {key} |-> d.row[k]]]

Counts(bucket) == <<bucket.num_files, bucket.num_versions, bucket.total_size>>

NotFolderRecord(record) == ~FolderKey(record.Key)

WithoutFolders ==
  get_file_stats(
    combine_deleted_and_versions(
      process_deletes(SelectSeq(json_deletes, NotFolderRecord)),
      process_versions(SelectSeq(json_versions, NotFolderRecord))))

C5_FoldersContributeNothing ==
  /\ pc = "print_file_stats" =>
       /\ WithoutFolders.err = "none"
       /\ stats = WithoutFolders.stats
  /\ pc = "done" =>
       /\ WithoutFolders.err = "none"
       /\ stats = print_file_stats(WithoutFolders.stats)
  /\ pc = "aborted" => WithoutFolders.err = err

C5_Witness ==
  /\ pc = "print_file_stats"
  /\ \E i \in 1..Len(json_versions) :
       /\ FolderKey(json_versions[i].Key)
       /\ json_versions[i].Size > 0
       /\ json_versions[i].IsLatest
       /\ data.row[json_versions[i].Key].status = "present"
  /\ stats.present.num_files = 1
  /\ stats.present.total_size < SumSizes(1..Len(json_versions))

(***************************************************************************)
(* C6.  The latest_modified that process_deletes and process_versions      *)
(* return for a key is the maximum timestamp among the records of the key. *)
(* The code stores a later timestamp under the name lastest_modified, so   *)
(* latest_modified stays the timestamp of the key's first record.          *)
(***************************************************************************)
C6_LatestModifiedIsMaximum ==
  /\ pc = "process_versions" =>
       \A key \in DeleteKeys : delete_markers.row[key].latest_modified = MaxDeleteTime(key)
  /\ pc = "combine_deleted_and_versions" =>
       \A key \in VersionKeys : versions.row[key].latest_modified = MaxVersionTime(key)

(***************************************************************************)
(* C7.  With at most one IsLatest record per key, process_versions returns *)
(* one entry per key with the sum of the sizes, the number of records, the *)
(* quotient of the two, and the size of the IsLatest record of a key that  *)
(* is not a folder; latest_size is unset for a folder and for a key with   *)
(* no IsLatest record.                                                     *)
(***************************************************************************)
LatestIdx(key) == {i \in VersionIdx(key) : json_versions[i].IsLatest}

AtMostOneLatest == \A key \in VersionKeys : Cardinality(LatestIdx(key)) <= 1

C7_VersionSummaries ==
  (pc = "combine_deleted_and_versions" /\ AtMostOneLatest) =>
    /\ DictKeys(versions) = VersionKeys
    /\ Len(versions.order) = Cardinality(VersionKeys)
    /\ \A key \in VersionKeys :
         LET row == versions.row[key]
             total == SumSizes(VersionIdx(key))
             num == Cardinality(VersionIdx(key))
         IN /\ row.total_size = total
            /\ row.num_versions = num
            /\ num >= 1
            /\ row.average_size = TrueDiv(total, num)
            /\ IF ~FolderKey(key) /\ LatestIdx(key) # {}
               THEN /\ "latest_size" \in DOMAIN row
                    /\ \A i \in LatestIdx(key) : row.latest_size = json_versions[i].Size
               ELSE "latest_size" \notin DOMAIN row

C7_Witness ==
  /\ pc = "combine_deleted_and_versions"
  /\ AtMostOneLatest
  /\ Len(json_versions) = 2
  /\ json_versions[1].Key = json_versions[2].Key
  /\ ~FolderKey(json_versions[1].Key)
  /\ json_versions[1].Size = 0
  /\ json_versions[2].Size = 1
  /\ json_versions[2].IsLatest
  /\ json_versions[1].LastModified < json_versions[2].LastModified
  /\ versions.row[json_versions[1].Key].average_size = <<1, 2>>
  /\ versions.row[json_versions[1].Key].latest_size = 1

(***************************************************************************)
(* C8.  Degenerate aggregates do not fail: a bucket's average_size is      *)
(* total_size / num_versions when num_versions > 0 and 0 otherwise, no     *)
(* ZeroDivisionError is raised, and pct_used_by_latest is the literal "0"  *)
(* when the present total_size is 0 and latest_size / total_size * 100     *)
(* rounded to two decimals otherwise.                                      *)
(***************************************************************************)
NearestHundredth(h, latest, total) ==
  LET twice == 2 * (latest * 10000 - h * total)
  IN /\ twice <= total
     /\ -twice <= total
     /\ (twice = total \/ -twice = total) => h % 2 = 0

C8_DegenerateAggregates ==
  /\ err # "ZeroDivisionError"
  /\ Returned =>
       \A status \in {"present", "deleted"} :
         IF stats[status].num_versions > 0
         THEN /\ stats[status].average_size[2] > 0
              /\ stats[status].average_size[1] * stats[status].num_versions
                   = stats[status].total_size * stats[status].average_size[2]
         ELSE stats[status].average_size = IntZero
  /\ pc = "done" =>
       IF stats.present.total_size = 0
       THEN stats.present.pct_used_by_latest = <<"0", 0>>
       ELSE /\ stats.present.pct_used_by_latest[1] = "round2"
            /\ NearestHundredth(stats.present.pct_used_by_latest[2],
                                stats.present.latest_size, stats.present.total_size)

C8_Witness ==
  /\ pc = "done"
  /\ stats.deleted.num_files = 1
  /\ stats.deleted.num_versions = 0
  /\ stats.deleted.average_size = IntZero
  /\ stats.present.num_files = 1
  /\ stats.present.total_size = 0
  /\ stats.present.pct_used_by_latest = <<"0", 0>>

(***************************************************************************)
(* C9.  As stated: whenever some entry has a status outside {present,      *)
(* deleted}, or is present without a latest_size, get_file_stats raises    *)
(* and returns nothing.  It fails for a folder entry, which is skipped     *)
(* before its status and latest_size are read.                             *)
(***************************************************************************)
Faulty(row) ==
  \/ row.status \notin {"present", "deleted"}
  \/ row.status = "present" /\ "latest_size" \notin DOMAIN row

Raised == pc = "aborted" /\ err # "none" /\ stats = NoStats

C9_AnyFaultyEntryAborts ==
  (pc # "get_file_stats" /\ \E key \in DictKeys(data) : Faulty(data.row[key])) => Raised

(***************************************************************************)
(* C9, amended.  Whenever some entry that is not a folder has a status     *)
(* outside {present, deleted}, or is present without a latest_size,        *)
(* get_file_stats raises and returns nothing.                              *)
(***************************************************************************)
C9_FaultyFileEntryAborts ==
  (pc # "get_file_stats"
     /\ \E key \in DictKeys(data) : ~data.row[key].is_folder /\ Faulty(data.row[key])) => Raised

C9_Witness ==
  /\ Raised
  /\ Len(data.order) = 2
  /\ ~Faulty(data.row[data.order[1]])
  /\ ~data.row[data.order[1]].is_folder
  /\ data.row[data.order[1]].status = "present"
  /\ data.row[data.order[2]].status = "unknown"
  /\ ~data.row[data.order[2]].is_folder

(***************************************************************************)
(* C10.  For a well-formed listing (each key has exactly one IsLatest      *)
(* version, or no IsLatest version and a delete marker strictly newer than *)
(* all its versions) the pipeline returns both buckets without raising.    *)
(* It fails when the newer delete marker is not the key's first one.       *)
(***************************************************************************)
WellFormedListing ==
  \A key \in VersionKeys \cup DeleteKeys :
    \/ Cardinality(LatestIdx(key)) = 1
    \/ /\ LatestIdx(key) = {}
       /\ \E i \in DeleteIdx(key) :
            \A j \in VersionIdx(key) :
              json_deletes[i].LastModified > json_versions[j].LastModified

C10_WellFormedListingCompletes ==
  WellFormedListing =>
    /\ pc # "aborted"
    /\ err = "none"
    /\ Combined =>
         \A key \in DictKeys(data) :
           (~FolderKey(key) /\ data.row[key].status = "present")
             => "latest_size" \in DOMAIN data.row[key]

(***************************************************************************)
(* The legacy script, 2-process-bucket-contents.py: the same pipeline      *)
(* without latest_size and with both averages divided unconditionally.     *)
(* Its main reads data["DeleteMarkers"] without testing for the member;    *)
(* the listings here always carry it, possibly empty.                      *)
(***************************************************************************)
isFolder(filename) ==
  LET index == Len(filename) IN filename[index] = "/"

processDeletes_row(retval, record) ==
  LET key == record.Key
      date == record.LastModified
  IN IF ~HasKey(retval, key)
     THEN DictSet(retval, key, [latest_modified |-> date])
     ELSE IF date > retval.row[key].latest_modified
          THEN DictSet(retval, key, Put(retval.row[key], "lastest_modified", date))
          ELSE retval

RECURSIVE processDeletes_loop(_, _)
processDeletes_loop(retval, records) ==
  IF records = <<>> THEN retval
  ELSE processDeletes_loop(processDeletes_row(retval, Head(records)), Tail(records))

processDeletes(records) == processDeletes_loop(EmptyDict, records)

processVersions_row(retval, record) ==
  LET key == record.Key
      date == record.LastModified
      size == record.Size
  IN IF ~HasKey(retval, key)
     THEN DictSet(retval, key,
            [latest_modified |-> date, total_size |-> size, num_versions |-> 1])
     ELSE LET old == retval.row[key]
              summed == Put(old, "total_size", old.total_size + size)
              counted == Put(summed, "num_versions", old.num_versions + 1)
          IN DictSet(retval, key,
               IF date > old.latest_modified
               THEN Put(counted, "lastest_modified", date)
               ELSE counted)

RECURSIVE processVersions_loop(_, _)
processVersions_loop(retval, records) ==
  IF records = <<>> THEN retval
  ELSE processVersions_loop(processVersions_row(retval, Head(records)), Tail(records))

processVersions(records) ==
  LET retval == processVersions_loop(EmptyDict, records)
  IN [order |-> retval.order,
      row |-> [key \in DictKeys(retval) |->
                 Put(retval.row[key], "average_size",
                     TrueDiv(retval.row[key].total_size, retval.row[key].num_versions))]]

combineDeletedAndVersions_row(retval, vs, key) ==
  LET folder == isFolder(key)
      row == vs.row[key]
      merged == IF ~HasKey(retval, key)
                THEN Put(row, "status", "present")
                ELSE LET date_deleted == retval.row[key].latest_modified
                         date_version == row.latest_modified
                     IN IF date_deleted > date_version
                        THEN Put(Put(row, "status", "deleted"), "last_modified", date_deleted)
                        ELSE Put(row, "status", "present")
  IN DictSet(retval, key, Put(merged, "is_folder", folder))

RECURSIVE combineDeletedAndVersions_loop(_, _, _)
combineDeletedAndVersions_loop(retval, vs, keys) ==
  IF keys = <<>> THEN retval
  ELSE combineDeletedAndVersions_loop(
         combineDeletedAndVersions_row(retval, vs, Head(keys)), vs, Tail(keys))

combineDeletedAndVersions(dm, vs) ==
  LET merged == combineDeletedAndVersions_loop(dm, vs, vs.order)
  IN [order |-> merged.order,
      row |-> [key \in DictKeys(merged) |->
                 IF ~HasKey(vs, key)
                 THEN Put(Put(Put(Put(merged.row[key], "status", "deleted"),
                                  "is_folder", isFolder(key)),
                              "total_size", 0), "num_versions", 0)
                 ELSE merged.row[key]]]

getFileStats_new ==
  [present |-> [num_files |-> 0, num_versions |-> 0, total_size |-> 0,
                average_size |-> IntZero],
   deleted |-> [num_files |-> 0, num_versions |-> 0, total_size |-> 0,
                average_size |-> IntZero]]

getFileStats_add(bucket, row) ==
  [bucket EXCEPT !.num_files = @ + 1,
                 !.num_versions = @ + row.num_versions,
                 !.total_size = @ + row.total_size]

getFileStats_row(acc, row) ==
  IF row.is_folder THEN acc
  ELSE IF row.status = "present"
       THEN [acc EXCEPT !.stats.present = getFileStats_add(@, row)]
       ELSE IF row.status = "deleted"
            THEN [acc EXCEPT !.stats.deleted = getFileStats_add(@, row)]
            ELSE [acc EXCEPT !.err = "Exception"]

RECURSIVE getFileStats_loop(_, _, _)
getFileStats_loop(acc, d, keys) ==
  IF keys = <<>> \/ acc.err # "none" THEN acc
  ELSE getFileStats_loop(getFileStats_row(acc, d.row[Head(keys)]), d, Tail(keys))

getFileStats(d) ==
  LET summed == getFileStats_loop([err |-> "none", stats |-> getFileStats_new], d, d.order)
      present_average ==
        TrueDiv(summed.stats.present.total_size, summed.stats.present.num_versions)
      deleted_average ==
        TrueDiv(summed.stats.deleted.total_size, summed.stats.deleted.num_versions)
  IN IF summed.err # "none" THEN summed
     ELSE IF present_average = DivByZero \/ deleted_average = DivByZero
          THEN [summed EXCEPT !.err = "ZeroDivisionError"]
          ELSE [summed EXCEPT !.stats.present.average_size = present_average,
                              !.stats.deleted.average_size = deleted_average]

(***************************************************************************)
(* main of the legacy script, one action per call.  printFileStats prints  *)
(* stats as they are (without --humanize) and leaves them unchanged.       *)
(***************************************************************************)
InitLegacy ==
  /\ json_versions \in SeqsUpTo(VersionRecords, MaxVersions)
  /\ json_deletes \in SeqsUpTo(DeleteRecords, Min(MaxDeletes, MaxRecords - Len(json_versions)))
  /\ delete_markers = EmptyDict
  /\ versions = EmptyDict
  /\ data = EmptyDict
  /\ stats = NoStats
  /\ err = "none"
  /\ pc = "processDeletes"

LegacyProcessDeletes ==
  /\ pc = "processDeletes"
  /\ delete_markers' = processDeletes(json_deletes)
  /\ pc' = "processVersions"
  /\ UNCHANGED <<json_versions, json_deletes, versions, data, stats, err>>

LegacyProcessVersions ==
  /\ pc = "processVersions"
  /\ LET retval == processVersions(json_versions)
     IN IF \E key \in DictKeys(retval) : retval.row[key].average_size = DivByZero
        THEN /\ err' = "ZeroDivisionError"
             /\ pc' = "aborted"
             /\ UNCHANGED versions
        ELSE /\ versions' = retval
             /\ pc' = "combineDeletedAndVersions"
             /\ UNCHANGED err
  /\ UNCHANGED <<json_versions, json_deletes, delete_markers, data, stats>>

LegacyCombineDeletedAndVersions ==
  /\ pc = "combineDeletedAndVersions"
  /\ LET retval == combineDeletedAndVersions(delete_markers, versions)
     IN /\ data' = retval
        /\ delete_markers' = retval
        /\ versions' = [order |-> versions.order,
                        row |-> [key \in DictKeys(versions) |-> retval.row[key]]]
  /\ pc' = "getFileStats"
  /\ UNCHANGED <<json_versions, json_deletes, stats, err>>

LegacyGetFileStats ==
  /\ pc = "getFileStats"
  /\ LET retval == getFileStats(data)
     IN IF retval.err # "none"
        THEN /\ err' = retval.err
             /\ pc' = "aborted"
             /\ UNCHANGED stats
        ELSE /\ stats' = retval.stats
             /\ pc' = "printFileStats"
             /\ UNCHANGED err
  /\ UNCHANGED <<json_versions, json_deletes, delete_markers, versions, data>>

LegacyPrintFileStats ==
  /\ pc = "printFileStats"
  /\ pc' = "done"
  /\ UNCHANGED <<json_versions, json_deletes, delete_markers, versions, data, stats, err>>

NextLegacy ==
  \/ LegacyProcessDeletes
  \/ LegacyProcessVersions
  \/ LegacyCombineDeletedAndVersions
  \/ LegacyGetFileStats
  \/ LegacyPrintFileStats

SpecLegacy == InitLegacy /\ [][NextLegacy]_vars

(***************************************************************************)
(* C11.  The legacy script agrees with the current one: on every listing   *)
(* for which the current pipeline returns a summary, the legacy pipeline   *)
(* returns one too, with equal num_files, num_versions, total_size and     *)
(* average_size in the present and in the deleted bucket.  The legacy      *)
(* getFileStats divides by a bucket's num_versions without testing it, so  *)
(* it raises whenever one bucket has no version.                           *)
(***************************************************************************)
CurrentOutcome ==
  get_file_stats(
    combine_deleted_and_versions(process_deletes(json_deletes),
                                 process_versions(json_versions)))

SharedFields(bucket) ==
  <<bucket.num_files, bucket.num_versions, bucket.total_size, bucket.average_size>>

C11_LegacyAgreesWithCurrent ==
  (pc \in {"printFileStats", "done", "aborted"} /\ CurrentOutcome.err = "none") =>
    /\ pc # "aborted"
    /\ SharedFields(stats.present) = SharedFields(CurrentOutcome.stats.present)
    /\ SharedFields(stats.deleted) = SharedFields(CurrentOutcome.stats.deleted)

====
